---- MODULE Spec2Model ----
(***************************************************************************)
(* Model of the intent-extractor service of src/main.py: the text          *)
(* sanitizer (preprocess_tweet), the prompt builder (create_prompt), the   *)
(* batch conversion (convert) and the /intent-extractor/ handler (intent)  *)
(* with its shared credential cursor (rotator) and asyncio lock.           *)
(*                                                                         *)
(* A text is a sequence of one-character strings.  The collaborators that  *)
(* live outside src/main.py (tokenizer, completion client, postprocessor,  *)
(* geocoder) are modelled from the specification.                          *)
(***************************************************************************)
EXTENDS Integers, Sequences, FiniteSets, TLC

VARIABLES
    secret,      \* os.getenv("NEEDS_RESOLVER_API_KEY") is set     (main.py:121)
    settings,    \* get_settings(pid): [pool, geo_location]        (main.py:20-37)
    rotator,     \* the global credential cursor                   (main.py:17)
    lock,        \* asyncio.Lock(): its holder, Unlocked if free   (main.py:18)
    running,     \* the request the event loop is running, 0 if none
    req,         \* per request: position in intent() and its locals
    selected,    \* history: the credential selections, in order
    calls,       \* history: the completion calls issued, in order
    cv,          \* one direct call of convert()                   (main.py:40-116)
    pb,          \* one call of create_prompt()                    (main.py:69-79)
    sn           \* preprocess_tweet() applied once and twice      (main.py:59-67)

vars == <<secret, settings, rotator, lock, running, req, selected, calls, cv, pb, sn>>

(***************************************************************************)
(* Bounds of the model.                                                    *)
(***************************************************************************)
NumReq == 3          \* requests handled by one process
MaxPool == 3         \* largest credential pool
MaxBatch == 2        \* inputs per direct call of convert
MaxLen == 3          \* length of the short sanitizer inputs
MaxTextLen == 3      \* length of the prompt builder's texts
MaxTemplate == 7     \* literal tokens of a template
MaxReserved == 6     \* reserved output tokens (max_tokens)
MAX_TOKENS == 5      \* GPTTokenizer.MAX_TOKENS, scaled to the model

Min(a, b) == IF a <= b THEN a ELSE b
Max(a, b) == IF a >= b THEN a ELSE b
SetMax(S) == CHOOSE x \in S : \A y \in S : y <= x
Rep(c, n) == [i \in 1..n |-> c]
SeqsUpTo(S, n) == UNION {[1..k -> S] : k \in 0..n}

(***************************************************************************)
(* preprocess_tweet: the character classes of its three patterns.          *)
(***************************************************************************)
\* [a-zA-Z]
Letters == {"a", "b", "w", "Z"}
\* [0-9]
Digits == {"0", "1"}
\* \w of a str pattern: Unicode letters and digits, and the underscore
WordChars == Letters \cup Digits \cup {"_", "é"}
\* [-a-zA-Z0-9@:%._\\+~#=]
HostChars == Letters \cup Digits \cup {"-", "@", ":", "%", ".", "_", "\\", "+", "~", "#", "="}
\* [-a-zA-Z0-9()@:%_\\+.~#?&\\/=]
TrailChars == Letters \cup Digits \cup
    {"-", "(", ")", "@", ":", "%", "_", "\\", "+", ".", "~", "#", "?", "&", "/", "="}
\* \s
Whitespace == {" ", "\t", "\n"}
\* {1,256} of the host part
HostMax == 256
\* {1,10} of the top-level suffix
TldMax == 10

IsIn(t, i, C) == i >= 1 /\ i <= Len(t) /\ t[i] \in C

\* The indices of t, and the index after its end, that hold no character of C:
\* the places where a run of characters of C stops.
Breaks(t, C) == {j \in 1..(Len(t) + 1) : ~IsIn(t, j, C)}

\* The breaks of a text for each character class the patterns use.
Scan(t) ==
    [word |-> Breaks(t, WordChars), host |-> Breaks(t, HostChars),
     letter |-> Breaks(t, Letters), trail |-> Breaks(t, TrailChars),
     space |-> Breaks(t, Whitespace)]

\* The last index of the longest run that starts at i, for the class whose
\* breaks are brk (i - 1 when the character at i is not of the class).
RunEnd(brk, i) ==
    IF i \in brk THEN i - 1
    ELSE (CHOOSE j \in brk : j > i /\ \A k \in brk : k < j => k < i) - 1

\* \.[a-zA-Z]{1,10}\b at index d: the index of the suffix's last letter, 0 when
\* it does not match.  The word boundary needs the whole run of letters (the
\* character after a shorter prefix is a letter) and no word character after it.
TldEnd(t, sc, d) ==
    LET r == RunEnd(sc.letter, d + 1)
    IN  IF IsIn(t, d, {"."}) /\ r >= d + 1 /\ r - d <= TldMax /\ ~IsIn(t, r + 1, WordChars)
        THEN r ELSE 0

\* The dots of t at which \.[a-zA-Z]{1,10}\b matches.
SuffixDots(t, sc) == {d \in 1..Len(t) : TldEnd(t, sc, d) > 0}

\* [host]{1,256}\.[a-zA-Z]{1,10}\b[trail]* at index p: the index of the last
\* character matched, 0 when it does not match.  The host is greedy: the dot
\* taken is the last one that the rest of the pattern accepts.
RestEnd(t, sc, dots, p) ==
    LET h == Min(RunEnd(sc.host, p), p + HostMax - 1)
        D == {e \in dots : p + 1 <= e /\ e <= h + 1}
    IN  IF D = {} THEN 0 ELSE RunEnd(sc.trail, TldEnd(t, sc, SetMax(D)) + 1)

\* (?:www\.)? then the rest, the group tried first.
HasWww(t, p) ==
    /\ p + 3 <= Len(t)
    /\ t[p] = "w" /\ t[p + 1] = "w" /\ t[p + 2] = "w" /\ t[p + 3] = "."
AfterScheme(t, sc, dots, p) ==
    LET viaWww == IF HasWww(t, p) THEN RestEnd(t, sc, dots, p + 4) ELSE 0
    IN  IF viaWww > 0 THEN viaWww ELSE RestEnd(t, sc, dots, p)

\* (\w+?://)? at index p: the index of the second slash, 0 when absent.  No
\* word character is a colon, so the lazy \w+? stops at the end of the run.
SchemeEnd(t, sc, p) ==
    LET r == RunEnd(sc.word, p)
    IN  IF r >= p /\ IsIn(t, r + 1, {":"}) /\ IsIn(t, r + 2, {"/"}) /\ IsIn(t, r + 3, {"/"})
        THEN r + 3 ELSE 0

\* The url pattern at index p: the index of the last character matched, 0 when
\* there is no match at p.  The optional scheme is tried first.
UrlEnd(t, sc, dots, p) ==
    LET s == SchemeEnd(t, sc, p)
        viaScheme == IF s > 0 THEN AfterScheme(t, sc, dots, s + 1) ELSE 0
    IN  IF viaScheme > 0 THEN viaScheme ELSE AfterScheme(t, sc, dots, p)

\* @\w+ at index p: the index of the last character matched, 0 for no match.
MentionEnd(t, sc, p) ==
    IF IsIn(t, p, {"@"}) /\ IsIn(t, p + 1, WordChars)
    THEN RunEnd(sc.word, p + 1) ELSE 0

\* \s+ at index p.
SpaceEnd(t, sc, p) == IF IsIn(t, p, Whitespace) THEN RunEnd(sc.space, p) ELSE 0

\* The first index from i on at which a pattern matches, given the index at
\* which its match at each index ends (0: no match there); Len + 1 when none.
NextMatch(ends, i) ==
    CHOOSE j \in i..(Len(ends) + 1) :
        /\ j = Len(ends) + 1 \/ ends[j] > 0
        /\ \A k \in i..(j - 1) : ends[k] = 0

\* re.sub(pattern, repl, t) from index i on: the text up to the next match is
\* copied, the match is replaced by repl, and the scan goes on after the match.
RECURSIVE Sub(_, _, _, _)
Sub(t, ends, repl, i) ==
    LET j == NextMatch(ends, i)
    IN  IF j > Len(t) THEN SubSeq(t, i, Len(t))
        ELSE SubSeq(t, i, j - 1) \o repl \o Sub(t, ends, repl, ends[j] + 1)

\* re.sub(mention_pattern, " ", text)
RemoveMentions(t) ==
    LET sc == Scan(t)
    IN  Sub(t, [p \in 1..Len(t) |-> MentionEnd(t, sc, p)], <<" ">>, 1)
\* re.sub(url_pattern, "", mentions_removed)
RemoveUrls(t) ==
    LET sc == Scan(t)
        dots == SuffixDots(t, sc)
    IN  Sub(t, [p \in 1..Len(t) |-> UrlEnd(t, sc, dots, p)], <<>>, 1)
\* re.sub(r"\s+", " ", url_removed)
CollapseSpaces(t) ==
    LET sc == Scan(t)
    IN  Sub(t, [p \in 1..Len(t) |-> SpaceEnd(t, sc, p)], <<" ">>, 1)

\* preprocess_tweet: mentions replaced by a space, then urls deleted, then
\* whitespace runs replaced by one space.
preprocess_tweet(text) ==
    LET mentions_removed == RemoveMentions(text)
        url_removed == RemoveUrls(mentions_removed)
    IN  CollapseSpaces(url_removed)

(***************************************************************************)
(* The tokenizer (GPTTokenizer of src/lm/tokenizer.py, outside src/main.py) *)
(* as the specification describes it: a text has one token per element, a  *)
(* template's insertion point takes PlaceholderTokens tokens, truncation    *)
(* keeps the earliest tokens and yields the empty text for a budget <= 0.   *)
(***************************************************************************)
Placeholder == "{ocr_input}"
PlaceholderTokens == 2

token_count(s) ==
    Len(s) + (PlaceholderTokens - 1) * Cardinality({i \in 1..Len(s) : s[i] = Placeholder})

truncate(text, max_tokens) == SubSeq(text, 1, Max(0, Min(max_tokens, Len(text))))

\* template.format(ocr_input=text): every insertion point becomes the text.
RECURSIVE Format(_, _)
Format(template, text) ==
    IF template = <<>> THEN <<>>
    ELSE (IF Head(template) = Placeholder THEN text ELSE <<Head(template)>>)
         \o Format(Tail(template), text)

(***************************************************************************)
(* create_prompt                                                           *)
(***************************************************************************)
\* Variant of the budget: the template's tokens are not subtracted.
InputBudgetNoTemplate(max_tokens, template_token_count) == MAX_TOKENS - max_tokens

\* max_tokens=GPTTokenizer.MAX_TOKENS - max_tokens - template_token_count
InputBudget(max_tokens, template_token_count) ==
    MAX_TOKENS - max_tokens - template_token_count

create_prompt(text, template, max_tokens) ==
    LET template_token_count == token_count(template)
        preprocessed_text == preprocess_tweet(text)
        truncated_text ==
            truncate(preprocessed_text, InputBudget(max_tokens, template_token_count))
    IN  Format(template, truncated_text)

(***************************************************************************)
(* Settings and the per-kind configuration of convert.                     *)
(***************************************************************************)
None == "None"
NoKey == <<>>

\* get_settings: the templates, the limits, the geocoding switch and the
\* credential pool (0-indexed, as the Python list is).
Settings(pool_size, geo) ==
    [address_template |-> <<"t", Placeholder>>,
     detailed_intent_template |-> <<"t", "t", Placeholder>>,
     address_max_tokens |-> 1,
     detailed_intent_max_tokens |-> 1,
     geo_location |-> geo,
     geo_key |-> "geo_key",
     engine |-> "engine",
     openai_keys |-> [i \in 0..(pool_size - 1) |-> <<"key", i>>]]

Kinds == {"address", "detailed_intent"}

\* The if/elif of convert: template and sampling parameters of a kind.
KindConfig(info, st) ==
    IF info = "address"
    THEN [template |-> st.address_template, max_tokens |-> st.address_max_tokens,
          temperature |-> "0.1", frequency_penalty |-> "0.3"]
    ELSE [template |-> st.detailed_intent_template,
          max_tokens |-> st.detailed_intent_max_tokens,
          temperature |-> "0.0", frequency_penalty |-> "0.0"]

\* text_inputs: one prompt per input, in order.
TextInputs(info, inputs, st) ==
    [i \in 1..Len(inputs) |->
        create_prompt(inputs[i], KindConfig(info, st).template, KindConfig(info, st).max_tokens)]

\* The arguments of converter.query_with_retry.
Query(info, inputs, st, api_key) ==
    [text_inputs |-> TextInputs(info, inputs, st), api_key |-> api_key,
     engine |-> st.engine, temperature |-> KindConfig(info, st).temperature,
     max_tokens |-> KindConfig(info, st).max_tokens, top_p |-> 1,
     frequency_penalty |-> KindConfig(info, st).frequency_penalty,
     presence_penalty |-> 0, stop |-> "#END"]

(***************************************************************************)
(* The collaborators of convert, as the specification describes them.      *)
(* A raw output answers one prompt and holds the completion texts; a text  *)
(* is known by how the postprocessor takes it.                             *)
(***************************************************************************)
TextShapes == {"parsed", "nothing", "malformed"}
RawTexts == {<<>>} \cup {<<s>> : s \in TextShapes}
\* No answer yet, and the failure of the call after its retries.
Pending == [state |-> "pending", outputs |-> <<>>]
Failure == [state |-> "failed", outputs |-> <<>>]

\* What query_with_retry can give for n prompts: one raw output per prompt,
\* in the order of the prompts, or a failure after its retries.
Replies(n) ==
    {Failure} \cup
    {[state |-> "ok", outputs |-> [i \in 1..n |-> [prompt |-> i, texts |-> f[i]]]] :
        f \in [1..n -> RawTexts]}

EmptyDict == [k \in {} |-> <<>>]

\* converter.postprocess raises on a text it cannot parse.
PostprocessRaises(info, text) == text = "malformed"
\* converter.postprocess: the structured result of a text it can parse.
Postprocess(info, text) ==
    IF text = "nothing" THEN EmptyDict
    ELSE [intent |-> <<info>>, detailed_intent_tags |-> <<text>>]

\* The geocoder answers with a location or raises.
GeoRaises == "GeoRaises"
GeoAnswers == {"here", "there", GeoRaises}

(***************************************************************************)
(* The loop of convert over the outputs (lines 97-116).                    *)
(***************************************************************************)
DefaultProcessed == [intent |-> <<>>, detailed_intent_tags |-> <<>>]

\* Python truth value of a dict.
Truthy(d) == DOMAIN d # {}

\* The try/except around postprocess(info, output[0]): output[0] raises on an
\* output without texts, postprocess on a text it cannot parse.
ParseFails(info, output) ==
    output.texts = <<>> \/ PostprocessRaises(info, output.texts[1])
Processed(info, output) ==
    IF ParseFails(info, output) THEN DefaultProcessed
    ELSE Postprocess(info, output.texts[1])

\* Variant of the geo condition: the kind is not looked at.
GeoAppliesAnyKind(info, geo_location, processed) == geo_location /\ Truthy(processed)

\* if info == "address" and settings.geo_location and returned_dict["processed"]
GeoApplies(info, geo_location, processed) ==
    info = "address" /\ geo_location /\ Truthy(processed)

\* returned_dict["processed"]["geo"] = ...
WithGeo(processed, answer) ==
    [k \in DOMAIN processed \cup {"geo"} |-> IF k = "geo" THEN answer ELSE processed[k]]

\* returned_dict: the raw output and its processed payload.
ReturnedDict(output, processed) == [string |-> output, processed |-> processed]

\* Variant of the append: an item left with the default payload is skipped.
AppendUnlessDefault(returned, returned_dict) ==
    IF returned_dict.processed = DefaultProcessed THEN returned
    ELSE Append(returned, returned_dict)

\* returned.append(returned_dict)
AppendItem(returned, returned_dict) == Append(returned, returned_dict)

\* The loop from output i on.  acc holds the items returned so far, the
\* geocoder calls made and whether the geocoder raised; geo gives the
\* geocoder's answer for each item.
RECURSIVE ConvertLoop(_, _, _, _, _, _)
ConvertLoop(info, st, outputs, geo, i, acc) ==
    IF i > Len(outputs) \/ acc.raised THEN acc
    ELSE LET output == outputs[i]
             processed == Processed(info, output)
             enrich == GeoApplies(info, st.geo_location, processed)
             call == [key |-> st.geo_key, arg |-> processed, answer |-> geo[i], item |-> i]
         IN  IF enrich /\ geo[i] = GeoRaises
             THEN [acc EXCEPT !.raised = TRUE, !.geo_calls = Append(@, call)]
             ELSE ConvertLoop(info, st, outputs, geo, i + 1,
                    [returned |-> AppendItem(acc.returned,
                                    ReturnedDict(output,
                                        IF enrich THEN WithGeo(processed, geo[i]) ELSE processed)),
                     geo_calls |-> IF enrich THEN Append(acc.geo_calls, call) ELSE acc.geo_calls,
                     raised |-> FALSE])

ConvertOutputs(info, st, outputs, geo) ==
    ConvertLoop(info, st, outputs, geo, 1, [returned |-> <<>>, geo_calls |-> <<>>, raised |-> FALSE])

(***************************************************************************)
(* The /intent-extractor/ handler.  Requests are asyncio tasks of one       *)
(* event loop: the loop runs one task at a time and changes task only      *)
(* where the running one suspends (an await that has to wait) or ends.     *)
(***************************************************************************)
Requests == 1..NumReq

\* The lock when no task holds it.
Unlocked == 0
NoHeader == <<>>
Token == "token"
\* req.headers["Authorization"] of a request: absent, the right bearer token,
\* or another value.
Headers == {NoHeader, <<"Bearer", Token>>, <<"Bearer", "guess">>}
\* The inputs of a request of the endpoint.
ReqInputs == {<<(<<"@", "a", " ", "a">>)>>}

NoReq ==
    [pc |-> "none", header |-> NoHeader, inputs |-> <<>>, pre |-> -1, post |-> -1,
     api_key |-> NoKey, reply |-> Pending, status |-> 0, response |-> <<>>]

Idle == [pc |-> "idle"]

InitShared ==
    /\ rotator = 0
    /\ lock = Unlocked
    /\ running = 0
    /\ selected = <<>>
    /\ calls = <<>>

Init ==
    /\ secret \in {None, Token}
    /\ \E k \in 1..MaxPool : settings = Settings(k, FALSE)
    /\ InitShared
    /\ req = [t \in Requests |-> NoReq]
    /\ cv = Idle /\ pb = Idle /\ sn = Idle

\* A request arrives and the event loop starts its handler, which it does when
\* no task is running.  Requests are numbered in the order of arrival.
Begin(t, h, inputs) ==
    /\ running = 0
    /\ req[t].pc = "none"
    /\ \A u \in 1..(t - 1) : req[u].pc # "none"
    /\ running' = t
    /\ req' = [req EXCEPT ![t] = [@ EXCEPT !.pc = "auth", !.header = h, !.inputs = inputs]]
    /\ UNCHANGED <<secret, settings, rotator, lock, selected, calls, cv, pb, sn>>

\* The end of a handler with a status and no response body of the endpoint.
Fails(t, status) ==
    /\ req' = [req EXCEPT ![t] = [@ EXCEPT !.pc = "done", !.status = status]]
    /\ running' = 0

\* Lines 121-130: the secret, the header lookup (a KeyError when the header
\* is absent, which the server answers with 500), the comparison.
CheckToken(t) ==
    /\ running = t
    /\ req[t].pc = "auth"
    /\ IF secret = None THEN Fails(t, 500)
       ELSE IF req[t].header = NoHeader THEN Fails(t, 500)
       ELSE IF req[t].header # <<"Bearer", secret>> THEN Fails(t, 401)
       ELSE req' = [req EXCEPT ![t].pc = "acquire"] /\ UNCHANGED running
    /\ UNCHANGED <<secret, settings, rotator, lock, selected, calls, cv, pb, sn>>

\* async with lock, entering: the lock is taken when free; otherwise the task
\* suspends until it is released.
Acquire(t) ==
    /\ running = t
    /\ req[t].pc = "acquire"
    /\ IF lock # Unlocked
       THEN /\ running' = 0
            /\ UNCHANGED <<lock, req>>
       ELSE /\ lock' = t
            /\ req' = [req EXCEPT ![t].pc = "incr"]
            /\ UNCHANGED running
    /\ UNCHANGED <<secret, settings, rotator, selected, calls, cv, pb, sn>>

\* Variants of the cursor update: without the modulus, and two steps at once.
NextRotatorNoWrap(r, n) == r + 1
NextRotatorSkip(r, n) == (r + 2) % n

\* (rotator + 1) % len(settings.openai_keys)
NextRotator(r, n) == (r + 1) % n

\* Line 138, under the lock.
Increment(t) ==
    /\ running = t
    /\ req[t].pc = "incr"
    /\ rotator' = NextRotator(rotator, Cardinality(DOMAIN settings.openai_keys))
    /\ req' = [req EXCEPT ![t] = [@ EXCEPT !.pc = "release", !.pre = rotator, !.post = rotator']]
    /\ UNCHANGED <<secret, settings, lock, running, selected, calls, cv, pb, sn>>

\* Variant of the exit: the lock stays with its holder.
LockKept(l) == l

\* The lock after __aexit__: released.
Released(l) == Unlocked

\* Variant of the exit: the task yields to the event loop after releasing.
ExitSuspendsAlways == TRUE

\* Whether the task suspends when it leaves the async with block: __aexit__
\* releases the lock without waiting for anything, so the task runs on.
ExitSuspends == FALSE

\* async with lock, leaving.
Release(t) ==
    /\ running = t
    /\ req[t].pc = "release"
    /\ lock' = Released(lock)
    /\ req' = [req EXCEPT ![t].pc = "read"]
    /\ running' = IF ExitSuspends THEN 0 ELSE running
    /\ UNCHANGED <<secret, settings, rotator, selected, calls, cv, pb, sn>>

\* Line 140, after the lock: the credential at the cursor as it is now.
ReadKey(t) ==
    /\ running = t
    /\ req[t].pc = "read"
    /\ req' = [req EXCEPT ![t] = [@ EXCEPT !.pc = "convert",
                                          !.api_key = settings.openai_keys[rotator]]]
    /\ selected' = Append(selected, [req |-> t, index |-> rotator])
    /\ UNCHANGED <<secret, settings, rotator, lock, running, calls, cv, pb, sn>>

\* Line 142 and convert up to its await: the prompts are built and the
\* completion call is issued; the task suspends until the answer is there.
ConvertCall(t) ==
    /\ running = t
    /\ req[t].pc = "convert"
    /\ calls' = Append(calls, [req |-> t,
                   query |-> Query("detailed_intent", req[t].inputs, settings, req[t].api_key)])
    /\ req' = [req EXCEPT ![t].pc = "awaiting"]
    /\ running' = 0
    /\ UNCHANGED <<secret, settings, rotator, lock, selected, cv, pb, sn>>

\* A suspended task can go on: its call is answered, the lock it waits for is
\* free, or it only yielded.
Resumable(t) ==
    CASE req[t].pc = "awaiting" -> TRUE
      [] req[t].pc = "acquire" -> lock = Unlocked
      [] req[t].pc = "read" -> TRUE
      [] OTHER -> FALSE

\* The event loop resumes a suspended task, which it does when no task is
\* running; r is the answer of the completion collaborator to its call.
Resume(t, r) ==
    /\ running = 0
    /\ Resumable(t)
    /\ running' = t
    /\ req' = [req EXCEPT ![t] = IF @.pc = "awaiting"
                                  THEN [@ EXCEPT !.pc = "resumed", !.reply = r] ELSE @]
    /\ UNCHANGED <<secret, settings, rotator, lock, selected, calls, cv, pb, sn>>

\* convert after its await and the return of intent (lines 97-116, 143): an
\* exception of the call or of the geocoder ends the request with 500 and no
\* body; otherwise the response holds what convert returned.
ConvertReturn(t, geo) ==
    /\ running = t
    /\ req[t].pc = "resumed"
    /\ IF req[t].reply = Failure THEN Fails(t, 500)
       ELSE LET out == ConvertOutputs("detailed_intent", settings, req[t].reply.outputs, geo)
            IN  IF out.raised THEN Fails(t, 500)
                ELSE /\ req' = [req EXCEPT ![t] = [@ EXCEPT !.pc = "done", !.status = 200,
                                                            !.response = out.returned]]
                     /\ running' = 0
    /\ UNCHANGED <<secret, settings, rotator, lock, selected, calls, cv, pb, sn>>

Next ==
    \/ \E t \in Requests, h \in Headers, inputs \in ReqInputs : Begin(t, h, inputs)
    \/ \E t \in Requests : CheckToken(t)
    \/ \E t \in Requests : Acquire(t)
    \/ \E t \in Requests : Increment(t)
    \/ \E t \in Requests : Release(t)
    \/ \E t \in Requests : ReadKey(t)
    \/ \E t \in Requests : ConvertCall(t)
    \/ \E t \in Requests : \E r \in Replies(Len(req[t].inputs)) : Resume(t, r)
    \/ \E t \in Requests : \E geo \in [1..Len(req[t].inputs) -> GeoAnswers] : ConvertReturn(t, geo)

Spec == Init /\ [][Next]_vars

(***************************************************************************)
(* convert called on its own, with any kind and any geocoding setting.      *)
(***************************************************************************)
ConvertKinds == Kinds \cup {"other"}
ConvertInputs == UNION {[1..n -> {<<"@", "a", " ", "a">>}] : n \in 0..MaxBatch}

InitConvert ==
    /\ secret = Token
    /\ \E geo \in BOOLEAN : settings = Settings(1, geo)
    /\ InitShared
    /\ req = [t \in Requests |-> NoReq]
    /\ \E info \in ConvertKinds, inputs \in ConvertInputs :
          cv = [pc |-> "called", info |-> info, inputs |-> inputs, reply |-> Pending,
                error |-> "", returned |-> <<>>, geo_calls |-> <<>>]
    /\ pb = Idle /\ sn = Idle

\* Lines 46-95: an unknown kind raises before any call; otherwise the prompts
\* are built and the completion call is issued with the default api_key.
CvCall ==
    /\ cv.pc = "called"
    /\ IF cv.info \in Kinds
       THEN /\ calls' = Append(calls, [req |-> 0, query |-> Query(cv.info, cv.inputs, settings, NoKey)])
            /\ cv' = [cv EXCEPT !.pc = "awaiting"]
       ELSE /\ cv' = [cv EXCEPT !.pc = "raised", !.error = "ValueError"]
            /\ UNCHANGED calls
    /\ UNCHANGED <<secret, settings, rotator, lock, running, req, selected, pb, sn>>

\* The completion collaborator answers.
CvReply(r) ==
    /\ cv.pc = "awaiting"
    /\ cv' = [cv EXCEPT !.pc = "answered", !.reply = r]
    /\ UNCHANGED <<secret, settings, rotator, lock, running, req, selected, calls, pb, sn>>

\* Lines 97-116: the loop over the outputs.  An exception of the call or of
\* the geocoder leaves convert without a return value.
CvReturn(geo) ==
    /\ cv.pc = "answered"
    /\ IF cv.reply = Failure
       THEN cv' = [cv EXCEPT !.pc = "raised", !.error = "UpstreamError"]
       ELSE LET out == ConvertOutputs(cv.info, settings, cv.reply.outputs, geo)
            IN  IF out.raised
                THEN cv' = [cv EXCEPT !.pc = "raised", !.error = "GeocodingError",
                                      !.geo_calls = out.geo_calls]
                ELSE cv' = [cv EXCEPT !.pc = "returned", !.returned = out.returned,
                                      !.geo_calls = out.geo_calls]
    /\ UNCHANGED <<secret, settings, rotator, lock, running, req, selected, calls, pb, sn>>

NextConvert ==
    \/ CvCall
    \/ \E r \in Replies(Len(cv.inputs)) : CvReply(r)
    \/ \E geo \in [1..Len(cv.inputs) -> GeoAnswers] : CvReturn(geo)

SpecConvert == InitConvert /\ [][NextConvert]_vars

(***************************************************************************)
(* create_prompt called on its own.                                        *)
(***************************************************************************)
PromptChars == {"a", "@", "."}
PromptTexts == SeqsUpTo(PromptChars, MaxTextLen)
\* Templates with one insertion point, as the configuration requires.
Templates == {Rep("t", p) \o <<Placeholder>> \o Rep("t", s) : p \in 0..MaxTemplate, s \in 0..1}

InitPrompt ==
    /\ secret = Token
    /\ settings = Settings(1, FALSE)
    /\ InitShared
    /\ req = [t \in Requests |-> NoReq]
    /\ cv = Idle
    /\ \E text \in PromptTexts, template \in Templates, max_tokens \in 0..MaxReserved :
          pb = [pc |-> "args", text |-> text, template |-> template,
                max_tokens |-> max_tokens, prompt |-> <<>>]
    /\ sn = Idle

BuildPrompt ==
    /\ pb.pc = "args"
    /\ pb' = [pb EXCEPT !.pc = "built",
                        !.prompt = create_prompt(pb.text, pb.template, pb.max_tokens)]
    /\ UNCHANGED <<secret, settings, rotator, lock, running, req, selected, calls, cv, sn>>

NextPrompt == BuildPrompt

SpecPrompt == InitPrompt /\ [][NextPrompt]_vars

(***************************************************************************)
(* preprocess_tweet applied to a text and then to its own result.           *)
(***************************************************************************)
SanitizeChars == {"a", "1", "é", ".", "@", " ", "/", ":"}
ShortTexts == SeqsUpTo(SanitizeChars, MaxLen)
\* Texts around a run as long as the host part of the url pattern allows, or
\* one shorter.
LongTexts ==
    {head \o Rep(c, n) \o tail :
        head \in SeqsUpTo({"a", ".", "@"}, MaxLen), c \in {"a", "1", "-"},
        n \in {HostMax - 1, HostMax}, tail \in {<<".", "a">>, <<".", "a", "/", "é">>}}

InitSanitize ==
    /\ secret = Token
    /\ settings = Settings(1, FALSE)
    /\ InitShared
    /\ req = [t \in Requests |-> NoReq]
    /\ cv = Idle /\ pb = Idle
    /\ \E text \in ShortTexts \cup LongTexts :
          sn = [pc |-> "text", text |-> text, once |-> <<>>, twice |-> <<>>]

SanitizeOnce ==
    /\ sn.pc = "text"
    /\ sn' = [sn EXCEPT !.pc = "once", !.once = preprocess_tweet(sn.text)]
    /\ UNCHANGED <<secret, settings, rotator, lock, running, req, selected, calls, cv, pb>>

SanitizeAgain ==
    /\ sn.pc = "once"
    /\ sn' = [sn EXCEPT !.pc = "twice", !.twice = preprocess_tweet(sn.once)]
    /\ UNCHANGED <<secret, settings, rotator, lock, running, req, selected, calls, cv, pb>>

NextSanitize == SanitizeOnce \/ SanitizeAgain

SpecSanitize == InitSanitize /\ [][NextSanitize]_vars

(***************************************************************************)
(* The claims.                                                             *)
(***************************************************************************)
PoolSize == Cardinality(DOMAIN settings.openai_keys)
Selecting == {t \in Requests : req[t].pre >= 0}
PastRead == {t \in Requests : req[t].pc \in {"convert", "awaiting", "resumed"}
                               \/ (req[t].pc = "done" /\ req[t].pre >= 0)}
CallsOf(t) == {i \in 1..Len(calls) : calls[i].req = t}

\* C1: every request that reaches credential selection advances the cursor by
\* exactly one step modulo the pool size, and the credential it passes to the
\* completion call is the one at the position its own increment produced,
\* under every interleaving of the requests.
C1_OwnIncrementCredential ==
    /\ \A t \in Selecting : req[t].post = (req[t].pre + 1) % PoolSize
    /\ \A t \in PastRead : req[t].api_key = <<"key", (req[t].pre + 1) % PoolSize>>
    /\ \A i \in 1..Len(calls) :
          calls[i].query.api_key = <<"key", (req[calls[i].req].pre + 1) % PoolSize>>

\* Two requests in flight at once with different credentials: one suspended in
\* its completion call while the other has just read its own.
C1_Witness ==
    \E t, u \in Requests :
        /\ req[t].pc = "awaiting" /\ req[u].pc = "convert"
        /\ req[t].api_key # req[u].api_key

\* C2 (as claimed): with the secret configured, a request whose Authorization
\* header is absent or is not 'Bearer ' + secret is answered with 401 and no
\* completion call is made for it.
C2_UnauthorizedIs401 ==
    \A t \in Requests :
        (secret # None /\ req[t].pc = "done" /\ req[t].header # <<"Bearer", secret>>)
            => (req[t].status = 401 /\ CallsOf(t) = {})

Answered == cv.pc \in {"returned", "raised"} /\ cv.reply.state = "ok"
Outputs == cv.reply.outputs
\* The item at which the geocoder raised, 0 if it did not.
GeoFailedAt ==
    IF cv.pc = "raised" /\ cv.error = "GeocodingError"
    THEN cv.geo_calls[Len(cv.geo_calls)].item ELSE 0

\* C3 (as claimed): for every kind and geocoding setting, an output whose
\* postprocessing fails gets exactly the default payload, the other items are
\* still processed, and the call does not fail because of that output.
C3_MalformedYieldsDefault ==
    Answered =>
        \A i \in 1..Len(Outputs) :
            ParseFails(cv.info, Outputs[i]) =>
                /\ GeoFailedAt # i
                /\ cv.pc = "returned" =>
                      /\ Len(cv.returned) = Len(Outputs)
                      /\ cv.returned[i].processed = DefaultProcessed

Count(i) == Cardinality({j \in 1..Len(selected) : selected[j].index = i})
Fair ==
    \A i \in 0..(PoolSize - 1) :
        Count(i) \in {Len(selected) \div PoolSize, (Len(selected) + PoolSize - 1) \div PoolSize}

\* C4 (amended): starting from cursor 0, after N credential selections on a
\* pool of size K >= 1 each credential was selected floor(N/K) or ceil(N/K)
\* times, and the j-th selection uses index j mod K: index 1 first when
\* K >= 2, index 0 when K = 1.
C4_RoundRobinOrder ==
    /\ Fair
    /\ \A j \in 1..Len(selected) : selected[j].index = j % PoolSize

\* The cursor went once around a pool of at least two credentials.
C4_Witness == PoolSize >= 2 /\ Len(selected) > PoolSize

\* C4 (as claimed): the same, with the first call using index 1 for every
\* pool size K >= 1.
C4_FirstCallUsesIndexOne ==
    /\ Fair
    /\ Len(selected) >= 1 => selected[1].index = 1

\* C5: given a collaborator that returns one raw output per prompt, a call
\* ends either in a failure with no partial results or in a result that holds
\* exactly one item per input, in input order, each with its raw output and a
\* processed payload.
C5_NoItemDropped ==
    /\ cv.pc = "raised" => cv.returned = <<>>
    /\ cv.pc = "returned" =>
          /\ Len(cv.returned) = Len(cv.inputs)
          /\ \A i \in 1..Len(cv.inputs) :
                /\ cv.returned[i].string = Outputs[i]
                /\ cv.returned[i].string.prompt = i
                /\ DOMAIN cv.returned[i] = {"string", "processed"}

\* A result of two items, the first of them replaced by the default.
C5_Witness ==
    /\ cv.pc = "returned" /\ Len(cv.returned) = 2
    /\ ParseFails(cv.info, Outputs[1]) /\ ~ParseFails(cv.info, Outputs[2])

PromptTokens == token_count(pb.prompt)
\* The tokens of the template with an empty text in its insertion point.
BareTemplateTokens == token_count(Format(pb.template, <<>>))

\* C6 (amended): whenever the template with an empty input fits in the
\* context, the prompt fits in it, for every text and every reserved output
\* size >= 0, also where reserved + template tokens reach or exceed the
\* maximum and the input budget is zero or negative.
C6_PromptFitsWhenTemplateFits ==
    (pb.pc = "built" /\ BareTemplateTokens <= MAX_TOKENS) => PromptTokens <= MAX_TOKENS

\* A prompt built with a negative budget from a text that is not empty.
C6_Witness ==
    /\ pb.pc = "built"
    /\ BareTemplateTokens <= MAX_TOKENS
    /\ pb.max_tokens + token_count(pb.template) > MAX_TOKENS
    /\ preprocess_tweet(pb.text) # <<>>

\* C6 (as claimed): the prompt never exceeds the context, for all templates,
\* texts and reserved output sizes.
C6_PromptNeverExceeds == pb.pc = "built" => PromptTokens <= MAX_TOKENS

\* C7 (amended): the lock is never held across the completion call: a request
\* that issues or waits for its call does not hold the lock, and whenever the
\* event loop can switch to another request (no request is running) the lock
\* is free, so only the request that is running its increment ever holds it.
C7_LockNotHeldDuringCall ==
    /\ \A t \in Requests : req[t].pc \in {"convert", "awaiting"} => lock # t
    /\ running = 0 => lock = Unlocked
    /\ lock # Unlocked => lock = running

\* A request takes the lock and advances the cursor while another is
\* suspended in its completion call.
C7_Witness ==
    \E t, u \in Requests : req[t].pc = "awaiting" /\ lock = u /\ req[u].pc = "release"

\* C7 (as claimed): in every state in which some request is suspended in the
\* completion call, the lock is free.
C7_LockFreeWheneverAwaiting ==
    \A t \in Requests : req[t].pc = "awaiting" => lock = Unlocked

\* C8: the cursor is always a valid index of the credential pool.
C8_CursorInRange == 0 <= rotator /\ rotator < PoolSize

\* The cursor is back at 0 after a rejected request and a full round.
C8_Witness ==
    /\ PoolSize >= 2 /\ Len(selected) = PoolSize /\ rotator = 0
    /\ \E t \in Requests : req[t].status = 401

\* The geocoder call made for item i, if any.
GeoCallsFor(i) == {j \in 1..Len(cv.geo_calls) : cv.geo_calls[j].item = i}
\* Kind address, geocoding configured, and a structured result that is not
\* empty.
ShouldEnrich(i) ==
    /\ cv.info = "address"
    /\ settings.geo_location
    /\ DOMAIN Processed(cv.info, Outputs[i]) # {}

\* C9: the geocoder is called for an item exactly when the kind is address,
\* geocoding is configured and the item's structured result is not empty; it
\* is called with the structured result and its answer becomes the geo field;
\* otherwise it is not called and no geo field is added.
C9_GeoExactlyWhen ==
    Answered =>
        /\ \A j \in 1..Len(cv.geo_calls) :
              /\ ShouldEnrich(cv.geo_calls[j].item)
              /\ cv.geo_calls[j].arg = Processed(cv.info, Outputs[cv.geo_calls[j].item])
        /\ cv.pc = "returned" =>
              \A i \in 1..Len(Outputs) :
                  IF ShouldEnrich(i)
                  THEN /\ Cardinality(GeoCallsFor(i)) = 1
                       /\ "geo" \in DOMAIN cv.returned[i].processed
                       /\ \A j \in GeoCallsFor(i) :
                             cv.returned[i].processed["geo"] = cv.geo_calls[j].answer
                  ELSE /\ GeoCallsFor(i) = {}
                       /\ "geo" \notin DOMAIN cv.returned[i].processed

\* An address call with geocoding on: one item enriched, one with an empty
\* structured result left alone.
C9_Witness ==
    /\ cv.pc = "returned" /\ cv.info = "address" /\ settings.geo_location
    /\ \E i, k \in 1..Len(cv.returned) :
          /\ "geo" \in DOMAIN cv.returned[i].processed
          /\ cv.returned[k].processed = EmptyDict

\* C10 (as claimed): applying the sanitizer twice gives what applying it once
\* gives.
C10_SanitizerIdempotent == sn.pc = "twice" => sn.twice = sn.once

====
